---- MODULE Spec2Model ----
(***************************************************************************)
(* State machines of the two agent services of langgraph-agent-templates: *)
(* the dedupe-append reducer add_documents, the routing functions, the    *)
(* ReAct graph (call_model / tools), the indexer graph (index_docs), the  *)
(* retrieval graph (query_analysis, research_planner, retrieve_docs,      *)
(* generate_response), the researcher graph (generate_queries,            *)
(* research_step), two RAG executions served at once, RAG executions      *)
(* served one after the other in one process, and the construction of     *)
(* the ReAct Context.                                                      *)
(*                                                                         *)
(* Python values are encoded as follows.                                   *)
(*   Optional value : <<>> is None, <<v>> is the value v.                 *)
(*   list           : a sequence.                                          *)
(*   dict           : a set of <<key, value>> pairs (metadata), or a       *)
(*                    sequence of <<key, value>> pairs where insertion     *)
(*                    order matters (the `seen` dict of add_documents).    *)
(*   Document       : [page_content, metadata].                            *)
(*   message        : [type, content, tool_calls].                         *)
(*   partial update : a record holding only the fields a node returns.     *)
(***************************************************************************)
EXTENDS Integers, Sequences, FiniteSets, TLC

VARIABLES
    state,      \* the state record threaded through one graph execution
    input,      \* the input the execution (or function application) started from
    pc,         \* the node (or marker) the executor runs next
    trace,      \* the nodes executed so far, in order
    calls,      \* the external collaborators invoked so far, in order
    update,     \* the partial update returned by the node that ran last
    response,   \* the last reply of the chat model ([kind |-> "none"] before any)
    prompt,     \* what the chat model was last invoked with (PyNone before any)
    failed,     \* the collaborator calls that raised so far, in order
    stores      \* the vector stores created in the process so far, in order

vars == <<state, input, pc, trace, calls, update, response, prompt, failed, stores>>

(***************************************************************************)
(* Bounds of the model.                                                    *)
(***************************************************************************)
MaxDocs == 2        \* longest document list drawn as an input

MaxMsgs == 2        \* longest message list drawn as an input

MaxSteps == 5       \* node executions by which the executor has set is_last_step

(***************************************************************************)
(* Python helpers.                                                         *)
(***************************************************************************)
PyNone == <<>>

Some(v) == <<v>>

\* dict.get(key, default) on a dict held as a set of <<key, value>> pairs
DictGet(d, key, default) ==
    IF \E p \in d : p[1] = key
    THEN (CHOOSE p \in d : p[1] = key)[2]
    ELSE default

\* All sequences over S of length at most n
SeqsUpTo(S, n) == UNION { [1..k -> S] : k \in 0..n }

Range(s) == { s[i] : i \in DOMAIN s }

(***************************************************************************)
(* Documents.  Two of the documents share the identity key ("", "x") and  *)
(* differ in metadata: one has no "source" entry, one has source "".       *)
(***************************************************************************)
Document(content, metadata) == [page_content |-> content, metadata |-> metadata]

DocUniverse ==
    { Document("x", {}),
      Document("x", {<<"source", "">>}),
      Document("x", {<<"source", "a.md">>}),
      Document("y", {<<"source", "a.md">>}) }

DocLists == SeqsUpTo(DocUniverse, MaxDocs)

\* List[Document] | None
OptDocLists == {PyNone} \cup { Some(l) : l \in DocLists }

(***************************************************************************)
(* rag_agent/utils/state.py: add_documents                                 *)
(***************************************************************************)
\* Variant: the key is the content alone, the source is ignored.
DocKeyContentOnly(doc) == <<"", doc.page_content>>

\* key = (doc.metadata.get("source", ""), doc.page_content)
DocKey(doc) == <<DictGet(doc.metadata, "source", ""), doc.page_content>>

\* `not x` for x : List | None
NotList(x) == x = PyNone \/ x[1] = <<>>

\* Variant: no key is ever found in seen, so nothing is deduplicated.
KeyNeverInSeen(key, seen) == FALSE

\* key in seen
KeyInSeen(key, seen) == \E i \in DOMAIN seen : seen[i][1] = key

\* Variant: seen[key] = doc unconditionally, so the last occurrence wins (a
\* Python dict keeps the position of the first insertion of the key).
RECURSIVE SeenLoopLastWins(_, _)
SeenLoopLastWins(docs, seen) ==
    IF docs = <<>>
    THEN seen
    ELSE LET doc == Head(docs)
             key == <<DictGet(doc.metadata, "source", ""), doc.page_content>>
             at  == { i \in DOMAIN seen : seen[i][1] = key }
         IN  SeenLoopLastWins(Tail(docs),
                 IF at = {} THEN Append(seen, <<key, doc>>)
                 ELSE [i \in DOMAIN seen |-> IF i \in at THEN <<key, doc>> ELSE seen[i]])

\* for doc in docs: if key not in seen: seen[key] = doc
RECURSIVE SeenLoop(_, _)
SeenLoop(docs, seen) ==
    IF docs = <<>>
    THEN seen
    ELSE LET doc == Head(docs)
             key == DocKey(doc)
         IN  SeenLoop(Tail(docs),
                      IF KeyInSeen(key, seen) THEN seen
                      ELSE Append(seen, <<key, doc>>))

\* list(seen.values())
DictValues(seen) == [i \in DOMAIN seen |-> seen[i][2]]

\* Variant: seen is first filled from the left list by a dict comprehension
\* (the last document of a key wins there); the right list is then added
\* as in the code.
add_documents_left_comprehension(left, right) ==
    LET l == IF left = PyNone \/ left[1] = <<>> THEN <<>> ELSE left[1]
        r == IF right = PyNone \/ right[1] = <<>> THEN <<>> ELSE right[1]
        all == SeenLoop(r, SeenLoopLastWins(l, <<>>))
    IN  [i \in DOMAIN all |-> all[i][2]]

add_documents(left, right) ==
    LET l == IF NotList(left) THEN <<>> ELSE left[1]
        r == IF NotList(right) THEN <<>> ELSE right[1]
    IN  DictValues(SeenLoop(l \o r, <<>>))

(***************************************************************************)
(* The reducer applied to drawn inputs: a base list S and two update lists *)
(* U1, U2.  One step computes every combination the properties compare.    *)
(***************************************************************************)
NoResponse == [kind |-> "none"]

NoUpdate == [none |-> TRUE]

ReducerInit ==
    /\ input \in [S : OptDocLists, U1 : OptDocLists, U2 : OptDocLists]
    /\ state = [applied |-> FALSE]
    /\ pc = "apply"
    /\ trace = <<>>
    /\ calls = <<>>
    /\ update = NoUpdate
    /\ response = NoResponse
    /\ prompt = PyNone
    /\ failed = <<>>
    /\ stores = <<>>

ApplyReducer ==
    /\ pc = "apply"
    /\ LET once   == add_documents(input.S, input.U1)
           other  == add_documents(input.S, input.U2)
       IN  state' = [applied |-> TRUE,
                     once    |-> once,
                     twice   |-> add_documents(Some(once), input.U1),
                     u1u2    |-> add_documents(Some(once), input.U2),
                     u2u1    |-> add_documents(Some(other), input.U1),
                     grouped |-> add_documents(input.S,
                                     Some(add_documents(input.U1, input.U2)))]
    /\ pc' = "done"
    /\ trace' = Append(trace, "add_documents")
    /\ UNCHANGED stores
    /\ UNCHANGED <<input, calls, update, response, prompt, failed>>

ReducerNext == ApplyReducer

SpecReducer == ReducerInit /\ [][ReducerNext]_vars

(***************************************************************************)
(* Properties of the reducer.                                              *)
(***************************************************************************)
\* The list held by a List | None value
ListOf(x) == IF x = PyNone THEN <<>> ELSE x[1]

\* The identity key of a document as the specification words it: the
\* metadata "source" entry, "" when there is none, and the content.
IdentityKey(doc) ==
    <<IF \E p \in doc.metadata : p[1] = "source"
      THEN (CHOOSE p \in doc.metadata : p[1] = "source")[2]
      ELSE "",
      doc.page_content>>

IdentityKeys(docs) == { IdentityKey(docs[i]) : i \in DOMAIN docs }

\* The index of the first document of docs with the given identity key
FirstIndex(docs, key) ==
    CHOOSE j \in DOMAIN docs :
        /\ IdentityKey(docs[j]) = key
        /\ \A k \in 1..(j - 1) : IdentityKey(docs[k]) # key

\* C1: applying the reducer with the same update U a second time gives the
\* same list as applying it once:
\* add_documents(add_documents(S, U), U) = add_documents(S, U).
C1_Idempotent ==
    state.applied => state.twice = state.once

\* C1 witness: the update shares a key with the base and also adds a document.
C1_Witness ==
    /\ pc = "done"
    /\ Len(state.once) > Len(ListOf(input.S))
    /\ IdentityKeys(ListOf(input.S)) \cap IdentityKeys(ListOf(input.U1)) # {}

\* C2: add_documents(L1, L2) holds no two documents with the same identity
\* key, holds exactly the keys of L1 followed by L2, in order of first
\* appearance, and keeps for each key the first document carrying it.
C2_FirstSeenNoDuplicates ==
    state.applied =>
        LET all == ListOf(input.S) \o ListOf(input.U1)
            res == state.once
        IN  /\ \A i, j \in DOMAIN res :
                   i # j => IdentityKey(res[i]) # IdentityKey(res[j])
            /\ IdentityKeys(res) = IdentityKeys(all)
            /\ \A i \in DOMAIN res :
                   res[i] = all[FirstIndex(all, IdentityKey(res[i]))]
            /\ \A i, j \in DOMAIN res :
                   i < j => FirstIndex(all, IdentityKey(res[i]))
                              < FirstIndex(all, IdentityKey(res[j]))

\* C2 witness: the two lists overlap in a key carried by different documents,
\* a duplicate was dropped and two keys remain.
C2_Witness ==
    /\ pc = "done"
    /\ Len(state.once) >= 2
    /\ Len(state.once) < Len(ListOf(input.S) \o ListOf(input.U1))
    /\ \E a \in Range(ListOf(input.S)), b \in Range(ListOf(input.U1)) :
           a # b /\ IdentityKey(a) = IdentityKey(b)

\* C3 as stated: applying U1 then U2 yields the same set of whole documents
\* (content and metadata) as applying U2 then U1.
C3_OrderInsensitiveDocuments ==
    state.applied => Range(state.u1u2) = Range(state.u2u1)

\* C3 amended: applying U1 then U2 yields the same set of identity keys as
\* applying U2 then U1; the sets of whole documents are equal too whenever
\* every identity key carried by different documents of U1 and U2 already
\* occurs in S.
C3_OrderInsensitiveKeys ==
    state.applied =>
        /\ IdentityKeys(state.u1u2) = IdentityKeys(state.u2u1)
        /\ (\A a \in Range(ListOf(input.U1)), b \in Range(ListOf(input.U2)) :
               (a # b /\ IdentityKey(a) = IdentityKey(b))
                   => IdentityKey(a) \in IdentityKeys(ListOf(input.S)))
           => Range(state.u1u2) = Range(state.u2u1)

\* C3 witness: two different non-empty updates whose two orders give
\* different lists holding the same documents.
C3_Witness ==
    /\ pc = "done"
    /\ ListOf(input.U1) # <<>>
    /\ ListOf(input.U2) # <<>>
    /\ state.u1u2 # state.u2u1
    /\ Range(state.u1u2) = Range(state.u2u1)

\* C4: the reducer is associative on ordered lists:
\* add_documents(add_documents(A, B), C) = add_documents(A, add_documents(B, C)).
C4_Associative ==
    state.applied => state.u1u2 = state.grouped

\* C4 witness: three non-empty lists, the middle one repeating a key, with a
\* duplicate dropped across them.
C4_Witness ==
    /\ pc = "done"
    /\ ListOf(input.S) # <<>>
    /\ Len(ListOf(input.U1)) = 2
    /\ Cardinality(IdentityKeys(ListOf(input.U1))) = 1
    /\ ListOf(input.U2) # <<>>
    /\ Len(state.grouped) >= 2
    /\ Len(state.grouped)
         < Len(ListOf(input.S)) + Len(ListOf(input.U1)) + Len(ListOf(input.U2))

(***************************************************************************)
(* Messages.  isinstance(m, HumanMessage) is m.type = "human",             *)
(* isinstance(m, AIMessage) is m.type = "ai".                              *)
(***************************************************************************)
Message(type, content, tool_calls) ==
    [type |-> type, content |-> content, tool_calls |-> tool_calls]

HumanMessage(content) == Message("human", content, <<>>)

AIMessage(content) == Message("ai", content, <<>>)

ToolMessage(content) == Message("tool", content, <<>>)

\* An assistant message asking for the search tool
ToolCallingMessage == Message("ai", "", <<"search">>)

MsgUniverse ==
    { HumanMessage("What is LangGraph?"),
      AIMessage("Hello"),
      ToolCallingMessage,
      ToolMessage("results") }

MsgLists == SeqsUpTo(MsgUniverse, MaxMsgs)

\* The outcome of a function call: a returned value or a raised exception
Returned(v) == [kind |-> "return", value |-> v]

Raised(exc) == [kind |-> "raise", value |-> exc]

(***************************************************************************)
(* rag_agent/utils/state.py: AgentState                                    *)
(***************************************************************************)
\* query_analysis: str | None
Analyses ==
    { PyNone, Some(""), Some("langchain"), Some("more-info"), Some("general"),
      Some("weather") }

\* AgentState(messages = msgs, query_analysis = qa), the other fields at
\* their defaults
AgentState(msgs, qa, docs) ==
    [messages       |-> msgs,
     query_analysis |-> qa,
     research_plan  |-> PyNone,
     steps          |-> <<>>,
     documents      |-> docs,
     retrieved_docs |-> <<>>,
     answer         |-> PyNone,
     user_id        |-> PyNone,
     session_id     |-> PyNone]

\* The ReAct State: the message list and the managed is_last_step flag
ReactState(msgs, last) == [messages |-> msgs, is_last_step |-> last]

(***************************************************************************)
(* rag_agent/graph.py: route_query                                         *)
(***************************************************************************)
\* x or "general" for x : str | None
OrGeneral(x) == IF x = PyNone \/ x[1] = "" THEN "general" ELSE x[1]

\* Variant: the two branch targets are exchanged.
route_query_swapped(s) ==
    LET analysis == OrGeneral(s.query_analysis)
    IN  Returned(IF analysis = "langchain" THEN "research_planner"
                 ELSE IF analysis = "more-info" THEN "retrieve_docs"
                 ELSE "generate_response")

route_query(s) ==
    LET analysis == OrGeneral(s.query_analysis)
    IN  Returned(IF analysis = "langchain" THEN "retrieve_docs"
                 ELSE IF analysis = "more-info" THEN "research_planner"
                 ELSE "generate_response")

(***************************************************************************)
(* react_agent/utils/nodes.py: route_model_output                          *)
(***************************************************************************)
\* Variant: the two labels are exchanged.
route_model_output_inverted(s) ==
    IF s.messages = <<>>
    THEN Raised("IndexError")
    ELSE LET last_message == s.messages[Len(s.messages)]
         IN  IF last_message.type # "ai"
             THEN Raised("ValueError")
             ELSE IF last_message.tool_calls = <<>>
                  THEN Returned("tools")
                  ELSE Returned("__end__")

route_model_output(s) ==
    IF s.messages = <<>>
    THEN Raised("IndexError")                  \* state.messages[-1]
    ELSE LET last_message == s.messages[Len(s.messages)]
         IN  IF last_message.type # "ai"
             THEN Raised("ValueError")
             ELSE IF last_message.tool_calls = <<>>
                  THEN Returned("__end__")
                  ELSE Returned("tools")

(***************************************************************************)
(* The routing functions applied to drawn states: any message list, any    *)
(* classification, either value of the flag.                               *)
(***************************************************************************)
RouterInit ==
    /\ state \in { AgentState(m, qa, <<>>) : m \in MsgLists, qa \in Analyses }
                 \cup { ReactState(m, l) : m \in MsgLists, l \in BOOLEAN }
    /\ input = state
    /\ pc = "route"
    /\ trace = <<>>
    /\ calls = <<>>
    /\ update = NoUpdate
    /\ response = NoResponse
    /\ prompt = PyNone
    /\ failed = <<>>
    /\ stores = <<>>

ApplyRouteQuery ==
    /\ pc = "route"
    /\ "query_analysis" \in DOMAIN state
    /\ update' = route_query(state)
    /\ pc' = "routed"
    /\ trace' = Append(trace, "route_query")
    /\ UNCHANGED stores
    /\ UNCHANGED <<state, input, calls, response, prompt, failed>>

ApplyRouteModelOutput ==
    /\ pc = "route"
    /\ "is_last_step" \in DOMAIN state
    /\ update' = route_model_output(state)
    /\ pc' = "routed"
    /\ trace' = Append(trace, "route_model_output")
    /\ UNCHANGED stores
    /\ UNCHANGED <<state, input, calls, response, prompt, failed>>

RouterNext == ApplyRouteQuery \/ ApplyRouteModelOutput

SpecRouter == RouterInit /\ [][RouterNext]_vars

(***************************************************************************)
(* Properties of the routing functions.                                    *)
(***************************************************************************)
\* C5: route_query is total: for every state it returns one of the three
\* labels and never raises; it returns "retrieve_docs" exactly for the
\* classification "langchain", "research_planner" exactly for "more-info",
\* and "generate_response" in every other case.
C5_RouteQueryTotal ==
    (pc = "routed" /\ trace = <<"route_query">>) =>
        /\ update.kind = "return"
        /\ update.value \in {"research_planner", "retrieve_docs", "generate_response"}
        /\ update.value = "retrieve_docs" <=> state.query_analysis = Some("langchain")
        /\ update.value = "research_planner" <=> state.query_analysis = Some("more-info")
        /\ update.value = "generate_response"
             <=> state.query_analysis \notin {Some("langchain"), Some("more-info")}

\* C5 witness: route_query ran on a state with no messages and no
\* classification and returned the fallback.
C5_Witness ==
    /\ pc = "routed"
    /\ trace = <<"route_query">>
    /\ state.messages = <<>>
    /\ state.query_analysis = PyNone
    /\ update = Returned("generate_response")

\* C6: route_model_output is total: for every state, also one with no
\* messages or whose last message is not an assistant message, it returns
\* "__end__" or "tools" and never raises.
C6_RouteModelOutputTotal ==
    (pc = "routed" /\ trace = <<"route_model_output">>) =>
        /\ update.kind = "return"
        /\ update.value \in {"__end__", "tools"}

(***************************************************************************)
(* langgraph add_messages, the reducer of the messages field: the update   *)
(* is appended (message ids given by the provider are fresh, so no message *)
(* of the list is replaced).                                               *)
(***************************************************************************)
add_messages(left, right) == left \o right

(***************************************************************************)
(* The chat model as a collaborator: loading it or invoking it may raise,  *)
(* otherwise it replies with an assistant message.                         *)
(***************************************************************************)
Reply(msg) == [kind |-> "reply", message |-> msg]

Failure(at) == [kind |-> "error", at |-> at]

ChatFailures == { Failure("load_chat_model"), Failure("ainvoke") }

(***************************************************************************)
(* react_agent/utils/nodes.py: call_model                                  *)
(***************************************************************************)
FallbackContent ==
    "Sorry, I could not find an answer to your question in the specified number of steps."

ReactReplies ==
    { Reply(AIMessage("Hello")),
      Reply(AIMessage("LangGraph is a library")),
      Reply(ToolCallingMessage),
      Reply(Message("ai", "Let me look that up", <<"search", "search">>)) }

\* Variant: the iteration cap is not looked at, the reply is always returned.
call_model_uncapped(s, reply) == [messages |-> <<reply.message>>]

\* Variant: the fallback message keeps the tool calls of the reply.
call_model_keeps_tool_calls(s, reply) ==
    IF s.is_last_step /\ reply.message.tool_calls # <<>>
    THEN [messages |-> <<Message("ai", FallbackContent, reply.message.tool_calls)>>]
    ELSE [messages |-> <<reply.message>>]

\* The update call_model returns once the model has replied
call_model(s, reply) ==
    IF s.is_last_step /\ reply.message.tool_calls # <<>>
    THEN [messages |-> <<AIMessage(FallbackContent)>>]
    ELSE [messages |-> <<reply.message>>]

\* tools_node = ToolNode(TOOLS): one tool message per pending tool call of the
\* last message; search returns None (content "null") when it fails
ToolResults(ok) ==
    IF ok THEN ToolMessage("results") ELSE ToolMessage("null")

(***************************************************************************)
(* react_agent/graph.py: build_graph.  Entry point call_model, a           *)
(* conditional edge from call_model through route_model_output, an edge    *)
(* from tools back to call_model.  The executor sets is_last_step before   *)
(* each step; it has set it by the time MaxSteps nodes have run.           *)
(***************************************************************************)
\* The nodes an edge set leads to from a node
Successors(edges, node) == { e[2] : e \in { d \in edges : d[1] = node } }

\* Variant: the tools node may also lead to the end marker.
ReactEdgesWithToolsExit ==
    { <<"__start__", "call_model">>, <<"call_model", "tools">>,
      <<"call_model", "__end__">>, <<"tools", "call_model">>,
      <<"tools", "__end__">> }

\* set_entry_point("call_model"); add_conditional_edges("call_model",
\* route_model_output), whose values are "tools" and "__end__";
\* add_edge("tools", "call_model")
ReactEdges ==
    { <<"__start__", "call_model">>, <<"call_model", "tools">>,
      <<"call_model", "__end__">>, <<"tools", "call_model">> }

ReactNodes == {"call_model", "tools"}

ReactInit ==
    /\ state \in { ReactState(m, l) : m \in MsgLists, l \in BOOLEAN }
    /\ input = state
    /\ pc \in Successors(ReactEdges, "__start__")
    /\ trace = <<>>
    /\ calls = <<>>
    /\ update = NoUpdate
    /\ response = NoResponse
    /\ prompt = PyNone
    /\ failed = <<>>
    /\ stores = <<>>

\* call_model raises: nothing catches it, the execution is aborted
CallModelFails ==
    /\ pc = "call_model"
    /\ \E f \in ChatFailures :
        /\ response' = f
        /\ calls' = IF f.at = "load_chat_model"
                    THEN Append(calls, "load_chat_model")
                    ELSE calls \o <<"load_chat_model", "ainvoke">>
        /\ update' = Raised(f.at)
        /\ prompt' = IF f.at = "ainvoke"
                     THEN Some([messages |-> state.messages])
                     ELSE prompt
        /\ failed' = Append(failed, f.at)
    /\ pc' = "aborted"
    /\ trace' = Append(trace, "call_model")
    /\ UNCHANGED stores
    /\ UNCHANGED <<state, input>>

\* call_model returns; its update is merged and the conditional edge is taken
CallModel ==
    /\ pc = "call_model"
    /\ \E reply \in ReactReplies :
        LET upd  == call_model(state, reply)
            next == [state EXCEPT !.messages = add_messages(@, upd.messages)]
            to   == route_model_output(next)
        IN  /\ response' = reply
            /\ update' = upd
            /\ state' = next
            /\ pc' = IF to.kind = "return" THEN to.value ELSE "aborted"
    /\ calls' = calls \o <<"load_chat_model", "ainvoke">>
    /\ prompt' = Some([messages |-> state.messages])
    /\ trace' = Append(trace, "call_model")
    /\ UNCHANGED stores
    /\ UNCHANGED <<input, failed>>

\* the tools node runs every pending tool call, then the edge to call_model
Tools ==
    /\ pc = "tools"
    /\ Len(trace) < MaxSteps
    /\ LET pending == state.messages[Len(state.messages)].tool_calls
       IN  /\ \E ok \in BOOLEAN :
               /\ update' = [messages |-> [i \in DOMAIN pending |-> ToolResults(ok)]]
               /\ \E l \in (IF Len(trace) + 2 >= MaxSteps THEN {TRUE} ELSE BOOLEAN) :
                   state' = [messages     |-> add_messages(state.messages, update'.messages),
                             is_last_step |-> l]
           /\ calls' = calls \o pending
    /\ pc' \in Successors(ReactEdges, "tools")
    /\ trace' = Append(trace, "tools")
    /\ UNCHANGED stores
    /\ UNCHANGED <<input, response, prompt, failed>>

ReactNext == CallModel \/ CallModelFails \/ Tools

SpecReact == ReactInit /\ [][ReactNext]_vars /\ WF_vars(ReactNext)

(***************************************************************************)
(* Properties of the ReAct graph.                                          *)
(***************************************************************************)
\* C7: when call_model runs with is_last_step true and the reply carries
\* pending tool calls, the one message it adds has the fixed fallback
\* content and no tool calls; the reply itself is not added.
C7_CappedReplyIsFallback ==
    [][ ( /\ pc = "call_model"
          /\ state.is_last_step
          /\ response'.kind = "reply"
          /\ response'.message.tool_calls # <<>> )
        => /\ Len(state'.messages) = Len(state.messages) + 1
           /\ SubSeq(state'.messages, 1, Len(state.messages)) = state.messages
           /\ LET added == state'.messages[Len(state'.messages)]
              IN  /\ added.type = "ai"
                  /\ added.content = FallbackContent
                  /\ added.tool_calls = <<>>
                  /\ added # response'.message ]_vars

\* C7 witness: call_model has just run at the cap on a reply with tool calls.
C7_Witness ==
    /\ trace # <<>>
    /\ trace[Len(trace)] = "call_model"
    /\ state.is_last_step
    /\ response.kind = "reply"
    /\ response.message.tool_calls # <<>>
    /\ Len(trace) >= 3

\* C8: once call_model has run with is_last_step true, whatever the model
\* replied, the end marker is reached as the very next step and the tools
\* node does not run afterwards; as the executor eventually sets
\* is_last_step, every execution of the loop terminates.
C8_CapEndsTheLoop ==
    /\ [][ ( /\ pc = "call_model"
             /\ state.is_last_step
             /\ response'.kind = "reply" ) => pc' = "__end__" ]_vars
    /\ [][ pc = "__end__" => pc' = "__end__" ]_vars
    /\ <>(pc \in {"__end__", "aborted"})

\* C8 witness: the loop went through tools and ended at a capped call_model
\* whose reply asked for tools.
C8_Witness ==
    /\ pc = "__end__"
    /\ state.is_last_step
    /\ \E i \in DOMAIN trace : trace[i] = "tools"
    /\ response.kind = "reply"
    /\ response.message.tool_calls # <<>>

\* C12: in the ReAct graph a failure of the chat-model call (loading or
\* invocation) inside call_model is caught at the node boundary and turned
\* into a default result (an update of the messages), and the execution is
\* not aborted.
C12_ModelFailureIsCaught ==
    failed # <<>> => (pc # "aborted" /\ "messages" \in DOMAIN update)

\* The last node that ran
LastNode == trace[Len(trace)]

\* C13: in the ReAct graph every run of the tools node comes directly after
\* a run of call_model and is directly followed by call_model (never by the
\* end marker or by tools itself), call_model never follows itself, and the
\* only edges between nodes are call_model -> tools and tools -> call_model:
\* that loop is the only cycle.
C13_ToolsReturnsToCallModel ==
    /\ \A i \in DOMAIN trace :
          /\ trace[i] = "tools" =>
                /\ i > 1 /\ trace[i - 1] = "call_model"
                /\ IF i < Len(trace) THEN trace[i + 1] = "call_model"
                                     ELSE pc = "call_model"
          /\ (trace[i] = "call_model" /\ i < Len(trace)) => trace[i + 1] = "tools"
    /\ pc = "tools" => (trace # <<>> /\ LastNode = "call_model")
    /\ { e \in ReactEdges : e[1] \in ReactNodes /\ e[2] \in ReactNodes }
          = { <<"call_model", "tools">>, <<"tools", "call_model">> }

\* C13 witness: the loop was taken twice before the end marker.
C13_Witness ==
    /\ pc = "__end__"
    /\ trace = <<"call_model", "tools", "call_model", "tools", "call_model">>

\* The last message of the state is an assistant message
LastIsAI(s) == s.messages # <<>> /\ s.messages[Len(s.messages)].type = "ai"

\* C17: on a state whose last message is an assistant message,
\* route_model_output returns "tools" if that message has at least one
\* pending tool call and "__end__" otherwise; so after call_model has
\* returned, the graph is at the end marker exactly when the latest
\* assistant message has no tool calls, and at tools otherwise.
C17_RouteFollowsToolCalls ==
    /\ LastIsAI(state) =>
          route_model_output(state) =
              Returned(IF state.messages[Len(state.messages)].tool_calls # <<>>
                       THEN "tools" ELSE "__end__")
    /\ (trace # <<>> /\ LastNode = "call_model" /\ pc # "aborted") =>
          /\ LastIsAI(state)
          /\ pc = "__end__" <=> state.messages[Len(state.messages)].tool_calls = <<>>
          /\ pc = "tools" <=> state.messages[Len(state.messages)].tool_calls # <<>>
    /\ pc = "__end__" =>
          (LastIsAI(state) /\ state.messages[Len(state.messages)].tool_calls = <<>>)

\* C17 witness: the model asked for a tool, the tool ran, and the next reply
\* carried no tool call, which ended the execution.
C17_Witness ==
    /\ pc = "__end__"
    /\ trace = <<"call_model", "tools", "call_model">>
    /\ ~state.is_last_step
    /\ state.messages[Len(state.messages)].tool_calls = <<>>
    /\ \E i \in DOMAIN state.messages : state.messages[i].tool_calls # <<>>

(***************************************************************************)
(* rag_agent/utils/state.py: IndexState (no field has a reducer: a         *)
(* returned field replaces the old value).                                 *)
(***************************************************************************)
IndexState(docs) ==
    [documents     |-> docs,
     indexed_count |-> 0,
     errors        |-> <<>>,
     source_file   |-> PyNone]

\* The merge of a partial update into a state whose fields are all replaced
MergeReplace(s, upd) ==
    [f \in DOMAIN s |-> IF f \in DOMAIN upd THEN upd[f] ELSE s[f]]

(***************************************************************************)
(* rag_agent/utils/tools.py: the collaborators of index_docs.              *)
(***************************************************************************)
\* What load_sample_documents returns: the documents of sample_docs.json, or
\* [] when the file is missing, unreadable or empty (it never raises)
SampleFiles ==
    { <<>>,
      <<Document("x", {<<"source", "a.md">>})>>,
      <<Document("x", {<<"source", "a.md">>}), Document("y", {<<"source", "a.md">>})>> }

\* split_documents: a text longer than chunk_size ("y" stands for one) is cut
\* into two chunks, a shorter one is one chunk
RECURSIVE split_documents(_)
split_documents(documents) ==
    IF documents = <<>>
    THEN <<>>
    ELSE (IF Head(documents).page_content = "y"
          THEN <<Head(documents), Head(documents)>>
          ELSE <<Head(documents)>>) \o split_documents(Tail(documents))

\* FAISS.from_texts(texts=["Initial document"]): a fresh store of one text
load_vector_store == <<Document("Initial document", {})>>

\* Variant: the first store created in the process is kept and handed out
\* again.
OpenStoreCached(existing) ==
    IF existing = <<>> THEN <<load_vector_store>> ELSE existing

\* load_vector_store called in a process that created the stores existing:
\* one more store is created; the caller holds the last one
OpenStore(existing) == Append(existing, load_vector_store)

\* aadd_documents(chunks) on the store the caller holds
StoreAdd(opened, chunks) == [opened EXCEPT ![Len(opened)] = @ \o chunks]

\* The calls index_docs makes after the documents are found, in order; any
\* of them may raise
IndexSteps ==
    <<"split_documents", "load_embeddings", "load_vector_store", "aadd_documents">>

\* The calls made when call number failAt raises (0: none does)
IndexCallsMade(failAt) ==
    IF failAt = 0 THEN IndexSteps ELSE SubSeq(IndexSteps, 1, failAt)

(***************************************************************************)
(* rag_agent/utils/nodes.py: index_docs.  sample is what                   *)
(* load_sample_documents would return, failAt the call that raises.        *)
(* The result is the returned update, the collaborators invoked and the    *)
(* one that raised.                                                        *)
(***************************************************************************)
\* Variant: no early return when there is nothing to index.
index_docs_no_early_return(s, sample, failAt) ==
    LET loaded    == s.documents = <<>>
        documents == IF loaded THEN sample ELSE s.documents
        first     == IF loaded THEN <<"load_sample_documents">> ELSE <<>>
    IN  IF failAt # 0
        THEN [update |-> [errors |-> <<"Indexing failed">>],
              calls  |-> first \o IndexCallsMade(failAt),
              failed |-> <<IndexSteps[failAt]>>]
        ELSE [update |-> [indexed_count |-> Len(split_documents(documents))],
              calls  |-> first \o IndexCallsMade(0),
              failed |-> <<>>]

index_docs(s, sample, failAt) ==
    LET loaded    == s.documents = <<>>                    \* not state.documents
        documents == IF loaded THEN sample ELSE s.documents
        first     == IF loaded THEN <<"load_sample_documents">> ELSE <<>>
    IN  IF documents = <<>>
        THEN [update |-> [indexed_count |-> 0, errors |-> <<"No documents found">>],
              calls  |-> first,
              failed |-> <<>>]
        ELSE IF failAt # 0
        THEN [update |-> [errors |-> <<"Indexing failed">>],
              calls  |-> first \o IndexCallsMade(failAt),
              failed |-> <<IndexSteps[failAt]>>]
        ELSE [update |-> [indexed_count |-> Len(split_documents(documents))],
              calls  |-> first \o IndexCallsMade(0),
              failed |-> <<>>]

(***************************************************************************)
(* rag_agent/graph.py: build_indexer_graph.  START -> index_docs -> END.   *)
(* The input holds the documents passed in and, as part of the             *)
(* environment, the content of the sample file.                            *)
(***************************************************************************)
\* Where the executor goes after a node: along the edge when the node
\* returned an update, nowhere when it raised
NextAfter(upd, targets) == IF "kind" \in DOMAIN upd THEN {"aborted"} ELSE targets

\* whether index_docs gets a store from load_vector_store
IndexOpens(s, sample, failAt) ==
    LET documents == IF s.documents = <<>> THEN sample ELSE s.documents
    IN  documents # <<>> /\ failAt \in {0, 4}

\* The stores of the process once index_docs has made its calls: a store is
\* created when load_vector_store returns, and holds the chunks when
\* aadd_documents returns
IndexStores(s, sample, failAt, existing) ==
    LET documents == IF s.documents = <<>> THEN sample ELSE s.documents
    IN  IF ~IndexOpens(s, sample, failAt) THEN existing
        ELSE IF failAt = 4 THEN OpenStore(existing)
        ELSE StoreAdd(OpenStore(existing), split_documents(documents))

IndexerInit ==
    /\ \E docs \in DocLists, sample \in SampleFiles :
        /\ state = IndexState(docs)
        /\ input = [documents |-> docs, sample_docs |-> sample]
    /\ pc = "index_docs"
    /\ trace = <<>>
    /\ calls = <<>>
    /\ update = NoUpdate
    /\ response = NoResponse
    /\ prompt = PyNone
    /\ failed = <<>>
    /\ stores = <<>>

IndexDocs ==
    /\ pc = "index_docs"
    /\ \E failAt \in 0..Len(IndexSteps) :
        LET r == index_docs(state, input.sample_docs, failAt)
        IN  /\ update' = r.update
            /\ calls' = calls \o r.calls
            /\ state' = MergeReplace(state, r.update)
            /\ failed' = failed \o r.failed
            /\ stores' = IndexStores(state, input.sample_docs, failAt, stores)
            /\ pc' \in NextAfter(r.update, {"__end__"})
    /\ trace' = Append(trace, "index_docs")
    /\ UNCHANGED <<input, response, prompt>>

IndexerNext == IndexDocs

SpecIndexer == IndexerInit /\ [][IndexerNext]_vars

(***************************************************************************)
(* Properties of the indexer graph.                                        *)
(***************************************************************************)
\* The collaborators that embed and store
StoreCalls == {"load_embeddings", "load_vector_store", "aadd_documents"}

\* What C9 promises of a finished execution
EmptyIndexingOutcome ==
    /\ "indexed_count" \in DOMAIN update
    /\ update.indexed_count = 0
    /\ "errors" \in DOMAIN update
    /\ update.errors # <<>>
    /\ state.indexed_count = 0
    /\ state.errors # <<>>
    /\ Range(calls) \cap StoreCalls = {}

\* C9 as stated: index_docs on an empty input document list always returns
\* indexed_count = 0 with a non-empty errors list and invokes neither the
\* embeddings loader nor the vector-store loader nor aadd_documents.
C9_EmptyInputNeverIndexes ==
    (pc = "__end__" /\ input.documents = <<>>) => EmptyIndexingOutcome

\* C9 amended: the same, for an empty input document list for which
\* load_sample_documents returns no documents either.
C9_NothingToIndex ==
    (pc = "__end__" /\ input.documents = <<>> /\ input.sample_docs = <<>>)
        => EmptyIndexingOutcome

\* C9 witness: index_docs ran on an empty input with no sample documents.
C9_Witness ==
    /\ pc = "__end__"
    /\ trace = <<"index_docs">>
    /\ input.documents = <<>>
    /\ input.sample_docs = <<>>
    /\ calls = <<"load_sample_documents">>

(***************************************************************************)
(* The merge of a partial update into an AgentState: messages through      *)
(* add_messages, documents and retrieved_docs through add_documents, every *)
(* other returned field replaces the old value; a field the update does    *)
(* not hold is carried over.                                               *)
(***************************************************************************)
\* Variant: a returned documents list replaces the accumulated one.
MergeAgentStateReplacing(s, upd) ==
    [f \in DOMAIN s |->
        IF f \notin DOMAIN upd THEN s[f]
        ELSE IF f = "messages" THEN add_messages(s[f], upd[f])
        ELSE upd[f]]

\* Variant: a field the update does not hold falls back to its default.
MergeAgentStateDefaults(s, upd) ==
    [f \in DOMAIN s |->
        IF f \notin DOMAIN upd THEN AgentState(<<>>, PyNone, <<>>)[f]
        ELSE IF f = "messages" THEN add_messages(s[f], upd[f])
        ELSE IF f \in {"documents", "retrieved_docs"}
             THEN add_documents(Some(s[f]), Some(upd[f]))
        ELSE upd[f]]

MergeAgentState(s, upd) ==
    [f \in DOMAIN s |->
        IF f \notin DOMAIN upd THEN s[f]
        ELSE IF f = "messages" THEN add_messages(s[f], upd[f])
        ELSE IF f \in {"documents", "retrieved_docs"}
             THEN add_documents(Some(s[f]), Some(upd[f]))
        ELSE upd[f]]

\* state.messages[-1] is a HumanMessage
LastIsHuman(s) == s.messages[Len(s.messages)].type = "human"

\* last_message.content if isinstance(last_message, HumanMessage) else ""
QuestionOf(s) ==
    IF LastIsHuman(s) THEN s.messages[Len(s.messages)].content ELSE ""

\* The calls made to the chat model up to the one that raises
ChatCalls(outcome) ==
    IF outcome.kind = "error" /\ outcome.at = "load_chat_model"
    THEN <<"load_chat_model">>
    ELSE <<"load_chat_model", "ainvoke">>

(***************************************************************************)
(* rag_agent/utils/nodes.py: query_analysis.  The parsed reply of the      *)
(* model is a dict (a set of <<key, value>> pairs) that may or may not     *)
(* hold "datasource"; loading, invoking or parsing may raise.              *)
(***************************************************************************)
QueryAnalysisOutcomes ==
    ChatFailures \cup {Failure("parser")}
        \cup { [kind |-> "reply", result |-> {}] }
        \cup { [kind |-> "reply", result |-> {<<"datasource", a>>}] : a \in Analyses }

\* Variant: the model is asked whatever the last message is.
QueryAnalysisAsksModelAnyLast(s) == s.messages # <<>>

\* whether query_analysis reaches the model at all
QueryAnalysisAsksModel(s) == s.messages # <<>> /\ LastIsHuman(s)

query_analysis(s, outcome) ==
    IF s.messages = <<>> THEN [query_analysis |-> Some("general")]
    ELSE IF ~LastIsHuman(s) THEN [query_analysis |-> Some("general")]
    ELSE IF outcome.kind = "error" THEN [query_analysis |-> Some("general")]
    ELSE [query_analysis |-> DictGet(outcome.result, "datasource", Some("general"))]

(***************************************************************************)
(* rag_agent/utils/nodes.py: research_planner.  The plan is a text, held   *)
(* as its lines; a line is its leading whitespace, its stripped text and   *)
(* whether that text begins with "#".                                      *)
(***************************************************************************)
PlanLine(lead, text, hash) == [lead |-> lead, text |-> text, hash |-> hash]

PlanTexts ==
    { <<>>,
      <<PlanLine("", "# Plan", TRUE), PlanLine("", "Find the docs", FALSE),
        PlanLine("", "", FALSE), PlanLine("  ", "Read them", FALSE)>>,
      <<PlanLine(" ", "# Notes", TRUE)>>,
      <<PlanLine("", "one", FALSE), PlanLine("", "two", FALSE),
        PlanLine("", "three", FALSE), PlanLine("", "four", FALSE),
        PlanLine("", "five", FALSE)>> }

PlannerOutcomes ==
    ChatFailures \cup { [kind |-> "reply", content |-> t] : t \in PlanTexts }

\* [step.strip() for step in plan.split("\n")
\*  if step.strip() and not step.startswith("#")]
RECURSIVE PlanSteps(_)
PlanSteps(lines) ==
    IF lines = <<>> THEN <<>>
    ELSE LET step == Head(lines)
         IN  (IF step.text # "" /\ ~(step.lead = "" /\ step.hash)
              THEN <<step.text>> ELSE <<>>) \o PlanSteps(Tail(lines))

\* xs[:n]
Take(xs, n) == SubSeq(xs, 1, IF Len(xs) < n THEN Len(xs) ELSE n)

MaxPlanSteps == 4

research_planner(s, outcome) ==
    IF s.messages = <<>>
    THEN [research_plan |-> Some(<<PlanLine("", "No query provided", FALSE)>>),
          steps |-> <<>>]
    ELSE IF outcome.kind = "error"
    THEN [research_plan |-> Some(<<PlanLine("", "Planning failed", FALSE)>>),
          steps |-> <<>>]
    ELSE [research_plan |-> Some(outcome.content),
          steps |-> Take(PlanSteps(outcome.content), MaxPlanSteps)]

(***************************************************************************)
(* rag_agent/utils/tools.py: retrieve_documents                            *)
(***************************************************************************)
\* asimilarity_search(query, k): the k nearest documents of the store
asimilarity_search(store, query, k) == Take(store, k)

RetrieveK == 10

\* The calls retrieve_docs makes, in order; any may raise
RetrieveSteps == <<"load_embeddings", "load_vector_store", "asimilarity_search">>

(***************************************************************************)
(* rag_agent/utils/nodes.py: retrieve_docs.  failAt is the call that       *)
(* raises (0: none).  A search that raises is caught in                    *)
(* retrieve_documents, a loader that raises in retrieve_docs; both give    *)
(* an empty list.                                                          *)
(***************************************************************************)
retrieve_docs_in(s, failAt, store) ==
    IF s.messages = <<>> THEN [documents |-> <<>>]
    ELSE IF failAt # 0 THEN [documents |-> <<>>]
    ELSE [documents |-> asimilarity_search(store, QuestionOf(s), RetrieveK)]

\* retrieve_docs in a process that created no store before
retrieve_docs(s, failAt) == retrieve_docs_in(s, failAt, load_vector_store)

\* whether retrieve_docs gets a store from load_vector_store
RetrieveOpens(s, failAt) == s.messages # <<>> /\ failAt \in {0, 3}

\* Variant: retrieve_docs searches the store created last in the process
\* when there is one.
RetrieveStoresReusing(s, failAt, existing) ==
    IF RetrieveOpens(s, failAt) /\ existing = <<>> THEN OpenStore(existing) ELSE existing

\* The stores of the process once retrieve_docs has made its calls
RetrieveStores(s, failAt, existing) ==
    IF RetrieveOpens(s, failAt) THEN OpenStore(existing) ELSE existing

RetrieveCalls(s, failAt) ==
    IF s.messages = <<>> THEN <<>>
    ELSE IF failAt = 0 THEN RetrieveSteps
    ELSE SubSeq(RetrieveSteps, 1, failAt)

\* The call of retrieve_docs that raised, if any
RetrieveFailed(s, failAt) ==
    IF s.messages = <<>> \/ failAt = 0 THEN <<>> ELSE <<RetrieveSteps[failAt]>>

(***************************************************************************)
(* rag_agent/utils/tools.py: format_docs_xml.  The text is held as its     *)
(* lines; a line is a tag, a text and the document index.                  *)
(***************************************************************************)
XmlLine(tag, text, index) == [tag |-> tag, text |-> text, index |-> index]

\* for key, value in doc.metadata.items(): <key>value</key>
RECURSIVE MetadataLines(_, _)
MetadataLines(metadata, index) ==
    IF metadata = {} THEN <<>>
    ELSE LET p == CHOOSE q \in metadata : TRUE
         IN  <<XmlLine(p[1], p[2], index)>> \o MetadataLines(metadata \ {p}, index)

RECURSIVE DocumentLines(_, _)
DocumentLines(docs, i) ==
    IF i > Len(docs) THEN <<>>
    ELSE <<XmlLine("document", "", i - 1),
           XmlLine("content", docs[i].page_content, i - 1),
           XmlLine("metadata", "", i - 1)>>
         \o MetadataLines(docs[i].metadata, i - 1)
         \o <<XmlLine("/metadata", "", i - 1), XmlLine("/document", "", i - 1)>>
         \o DocumentLines(docs, i + 1)

format_docs_xml(docs) ==
    IF docs = <<>>
    THEN <<XmlLine("documents", "", -1), XmlLine("text", "No documents found.", -1),
           XmlLine("/documents", "", -1)>>
    ELSE <<XmlLine("documents", "", -1)>> \o DocumentLines(docs, 1)
         \o <<XmlLine("/documents", "", -1)>>

(***************************************************************************)
(* rag_agent/utils/nodes.py: generate_response                             *)
(***************************************************************************)
GenerateOutcomes ==
    ChatFailures \cup { [kind |-> "reply", content |-> "LangGraph is a library"],
                        [kind |-> "reply", content |-> ""] }

\* Variant: the question is echoed before the answer.
generate_response_echoes(s, outcome) ==
    IF s.messages = <<>>
    THEN [messages |-> <<AIMessage("No query provided.")>>]
    ELSE IF outcome.kind = "error"
    THEN [messages |-> <<AIMessage("Response generation failed")>>]
    ELSE [messages |-> <<HumanMessage(QuestionOf(s)), AIMessage(outcome.content)>>,
          answer   |-> Some(outcome.content)]

\* Variant: the failure text is also stored as the answer.
generate_response_answers_on_failure(s, outcome) ==
    IF s.messages = <<>>
    THEN [messages |-> <<AIMessage("No query provided.")>>]
    ELSE IF outcome.kind = "error"
    THEN [messages |-> <<AIMessage("Response generation failed")>>,
          answer   |-> Some("Response generation failed")]
    ELSE [messages |-> <<AIMessage(outcome.content)>>,
          answer   |-> Some(outcome.content)]

generate_response(s, outcome) ==
    IF s.messages = <<>>
    THEN [messages |-> <<AIMessage("No query provided.")>>]
    ELSE IF outcome.kind = "error"
    THEN [messages |-> <<AIMessage("Response generation failed")>>]
    ELSE [messages |-> <<AIMessage(outcome.content)>>,
          answer   |-> Some(outcome.content)]

(***************************************************************************)
(* rag_agent/graph.py: build_retrieval_graph.                              *)
(*   START -> query_analysis -(route_query)-> research_planner |           *)
(*   retrieve_docs | generate_response;  research_planner -> retrieve_docs;*)
(*   retrieve_docs -> generate_response;  generate_response -> END.        *)
(***************************************************************************)
\* The documents a request may already carry in its input state
RetrievalInputDocs ==
    { <<>>,
      <<Document("x", {<<"source", "a.md">>})>>,
      <<Document("Initial document", {}), Document("y", {<<"source", "a.md">>})>> }

\* A request whose input state already carries values in the other fields
\* (AgentState is the input schema of the graph)
CarriedOver(s) ==
    [s EXCEPT !.query_analysis = Some("more-info"),
              !.research_plan  = Some(<<PlanLine("", "Earlier plan", FALSE)>>),
              !.steps          = <<"Earlier step">>,
              !.retrieved_docs = <<Document("x", {<<"source", "a.md">>})>>,
              !.answer         = Some("Earlier answer"),
              !.user_id        = Some("user-1"),
              !.session_id     = Some("session-1")]

RetrievalInputs ==
    LET fresh == { AgentState(m, PyNone, d) : m \in MsgLists, d \in RetrievalInputDocs }
    IN  fresh \cup { CarriedOver(s) : s \in fresh }

\* Variant: research_planner leads straight to generate_response.
RetrievalEdgesPlannerSkips ==
    { <<"__start__", "query_analysis">>, <<"research_planner", "generate_response">>,
      <<"retrieve_docs", "generate_response">>, <<"generate_response", "__end__">> }

\* The unconditional edges; the conditional edge from query_analysis maps
\* each label of route_query to the node of that name
RetrievalEdges ==
    { <<"__start__", "query_analysis">>, <<"research_planner", "retrieve_docs">>,
      <<"retrieve_docs", "generate_response">>, <<"generate_response", "__end__">> }

RetrievalInit ==
    /\ state \in RetrievalInputs
    /\ input = state
    /\ pc \in Successors(RetrievalEdges, "__start__")
    /\ trace = <<>>
    /\ calls = <<>>
    /\ update = NoUpdate
    /\ response = NoResponse
    /\ prompt = PyNone
    /\ failed = <<>>
    /\ stores = <<>>

\* The calls that raised, once the chat model gave this outcome
FailedAfter(outcome) ==
    IF outcome.kind = "error" THEN Append(failed, outcome.at) ELSE failed

\* What the chat model is invoked with, when the call gets that far
PromptAfter(outcome, variables) ==
    IF outcome.kind = "error" /\ outcome.at = "load_chat_model"
    THEN prompt
    ELSE Some(variables)

QueryAnalysis ==
    /\ pc = "query_analysis"
    /\ \/ /\ ~QueryAnalysisAsksModel(state)
          /\ update' = query_analysis(state, NoResponse)
          /\ UNCHANGED <<calls, response, prompt, failed>>
       \/ /\ QueryAnalysisAsksModel(state)
          /\ \E outcome \in QueryAnalysisOutcomes :
              /\ update' = query_analysis(state, outcome)
              /\ response' = outcome
              /\ calls' = calls \o ChatCalls(outcome)
              /\ prompt' = PromptAfter(outcome, [question |-> QuestionOf(state)])
              /\ failed' = FailedAfter(outcome)
    /\ state' = MergeAgentState(state, update')
    /\ pc' \in NextAfter(update', {route_query(state').value})
    /\ trace' = Append(trace, "query_analysis")
    /\ UNCHANGED stores
    /\ UNCHANGED input

ResearchPlanner ==
    /\ pc = "research_planner"
    /\ \E outcome \in PlannerOutcomes :
        /\ update' = research_planner(state, outcome)
        /\ response' = outcome
        /\ calls' = calls \o ChatCalls(outcome)
        /\ prompt' = PromptAfter(outcome, [question |-> QuestionOf(state)])
        /\ failed' = FailedAfter(outcome)
    /\ state' = MergeAgentState(state, update')
    /\ pc' \in NextAfter(update', Successors(RetrievalEdges, "research_planner"))
    /\ trace' = Append(trace, "research_planner")
    /\ UNCHANGED stores
    /\ UNCHANGED input

RetrieveDocs ==
    /\ pc = "retrieve_docs"
    /\ \E failAt \in 0..Len(RetrieveSteps) :
        /\ stores' = RetrieveStores(state, failAt, stores)
        /\ update' = retrieve_docs_in(state, failAt,
                         IF stores' = <<>> THEN <<>> ELSE stores'[Len(stores')])
        /\ calls' = calls \o RetrieveCalls(state, failAt)
        /\ failed' = failed \o RetrieveFailed(state, failAt)
    /\ state' = MergeAgentState(state, update')
    /\ pc' \in NextAfter(update', Successors(RetrievalEdges, "retrieve_docs"))
    /\ trace' = Append(trace, "retrieve_docs")
    /\ UNCHANGED <<input, response, prompt>>

GenerateResponse ==
    /\ pc = "generate_response"
    /\ \/ /\ state.messages = <<>>
          /\ update' = generate_response(state, NoResponse)
          /\ UNCHANGED <<calls, response, prompt, failed>>
       \/ /\ state.messages # <<>>
          /\ \E outcome \in GenerateOutcomes :
              /\ update' = generate_response(state, outcome)
              /\ response' = outcome
              /\ calls' = calls \o ChatCalls(outcome)
              /\ prompt' = PromptAfter(outcome,
                               [question |-> QuestionOf(state),
                                context  |-> format_docs_xml(state.documents)])
              /\ failed' = FailedAfter(outcome)
    /\ state' = MergeAgentState(state, update')
    /\ pc' \in NextAfter(update', Successors(RetrievalEdges, "generate_response"))
    /\ trace' = Append(trace, "generate_response")
    /\ UNCHANGED stores
    /\ UNCHANGED input

RetrievalNext == QueryAnalysis \/ ResearchPlanner \/ RetrieveDocs \/ GenerateResponse

SpecRetrieval == RetrievalInit /\ [][RetrievalNext]_vars

(***************************************************************************)
(* Properties of the retrieval graph.                                      *)
(***************************************************************************)
\* The input is one human message
SingleHumanInput == Len(input.messages) = 1 /\ input.messages[1].type = "human"

\* C10: with a single human input message and the classification "general",
\* the retrieval graph runs query_analysis and then generate_response
\* (neither research_planner nor retrieve_docs), and the final message list
\* is the input list plus exactly one new assistant message.
C10_GeneralRoutesToResponse ==
    ( /\ pc = "__end__"
      /\ SingleHumanInput
      /\ state.query_analysis = Some("general") )
    => /\ trace = <<"query_analysis", "generate_response">>
       /\ Len(state.messages) = Len(input.messages) + 1
       /\ SubSeq(state.messages, 1, Len(input.messages)) = input.messages
       /\ state.messages[Len(state.messages)].type = "ai"

\* C10 witness: the model classified the single human message as "general"
\* and then answered it.
C10_Witness ==
    /\ pc = "__end__"
    /\ SingleHumanInput
    /\ state.query_analysis = Some("general")
    /\ calls = <<"load_chat_model", "ainvoke", "load_chat_model", "ainvoke">>
    /\ state.answer = Some("LangGraph is a library")

\* The fields each node of the retrieval graph may change
RetrievalWrites(node) ==
    IF node = "query_analysis" THEN {"query_analysis"}
    ELSE IF node = "research_planner" THEN {"research_plan", "steps"}
    ELSE IF node = "retrieve_docs" THEN {"documents"}
    ELSE IF node = "generate_response" THEN {"messages", "answer"}
    ELSE {}

\* C14: in the retrieval graph each node's update leaves every field it does
\* not return unchanged: query_analysis changes only query_analysis,
\* research_planner only research_plan and steps, retrieve_docs only
\* documents, generate_response only messages and answer; user_id,
\* session_id and retrieved_docs are changed by no node.
C14_NodesKeepOtherFields ==
    [][ /\ \A f \in DOMAIN state :
              f \notin DOMAIN update' => state'[f] = state[f]
        /\ \A f \in DOMAIN state \ RetrievalWrites(pc) : state'[f] = state[f]
        /\ state'.user_id = state.user_id
        /\ state'.session_id = state.session_id
        /\ state'.retrieved_docs = state.retrieved_docs ]_vars

\* C14 witness: a request carrying values in every field went through all
\* four nodes, which changed the plan, the documents and the answer.
C14_Witness ==
    /\ pc = "__end__"
    /\ Len(trace) = 4
    /\ state.user_id = Some("user-1")
    /\ state.retrieved_docs # <<>>
    /\ state.research_plan # input.research_plan
    /\ state.documents # input.documents
    /\ state.answer # input.answer

\* The path of the retrieval graph for a classification
RetrievalPath(analysis) ==
    IF analysis = Some("langchain")
    THEN <<"query_analysis", "retrieve_docs", "generate_response">>
    ELSE IF analysis = Some("more-info")
    THEN <<"query_analysis", "research_planner", "retrieve_docs", "generate_response">>
    ELSE <<"query_analysis", "generate_response">>

\* C16: every execution of the retrieval graph is one sequential path in
\* which no node runs twice, and it is the path of the classification set
\* by query_analysis: query_analysis, retrieve_docs, generate_response for
\* "langchain"; query_analysis, research_planner, retrieve_docs,
\* generate_response for "more-info"; query_analysis, generate_response
\* otherwise.  generate_response is the last node before the end marker and
\* research_planner is always followed by retrieve_docs.
C16_SingleSequentialPath ==
    /\ \A i, j \in DOMAIN trace : i # j => trace[i] # trace[j]
    /\ trace # <<>> =>
          LET path == RetrievalPath(state.query_analysis)
          IN  /\ Len(trace) <= Len(path)
              /\ trace = SubSeq(path, 1, Len(trace))
              /\ pc = IF Len(trace) < Len(path) THEN path[Len(trace) + 1]
                                                ELSE "__end__"
    /\ pc = "__end__" => (trace # <<>> /\ LastNode = "generate_response")
    /\ \A i \in DOMAIN trace :
          trace[i] = "research_planner" =>
              IF i < Len(trace) THEN trace[i + 1] = "retrieve_docs"
                                ELSE pc = "retrieve_docs"

\* C16 witness: a request classified "more-info" ran all four nodes.
C16_Witness ==
    /\ pc = "__end__"
    /\ input.query_analysis = PyNone
    /\ state.query_analysis = Some("more-info")
    /\ trace = <<"query_analysis", "research_planner", "retrieve_docs",
                 "generate_response">>

\* The request holds no message, or its last message is not a human one
NoHumanQuestion(s) == s.messages = <<>> \/ ~LastIsHuman(s)

\* C18: when the retrieval graph is run on a state with no messages, or
\* whose last message is not a human message, query_analysis sets the
\* classification to "general" without invoking the chat model, the route
\* is the fallback straight to generate_response, and with no messages
\* generate_response adds the assistant message "No query provided."
\* without invoking the chat model.
C18_NoQuestionSkipsTheModel ==
    (NoHumanQuestion(input) /\ trace # <<>>) =>
        /\ state.query_analysis = Some("general")
        /\ trace \in { <<"query_analysis">>, <<"query_analysis", "generate_response">> }
        /\ Len(trace) = 1 => (calls = <<>> /\ pc = "generate_response")
        /\ input.messages = <<>> =>
              /\ calls = <<>>
              /\ pc = "__end__" => state.messages = <<AIMessage("No query provided.")>>

\* C18 witness: a request without messages, carrying an earlier
\* classification, ended with the single message "No query provided.".
C18_Witness ==
    /\ pc = "__end__"
    /\ input.messages = <<>>
    /\ input.query_analysis = Some("more-info")
    /\ state.messages = <<AIMessage("No query provided.")>>

\* The texts generate_response may answer with
ResponseTexts ==
    { "No query provided.", "Response generation failed" }
        \cup { o.content : o \in { g \in GenerateOutcomes : g.kind = "reply" } }

\* C19: every completed execution of the retrieval graph has appended
\* exactly one assistant message to the message list (the model answer, the
\* failure text or "No query provided."); no node other than
\* generate_response adds or removes messages, and the answer field is set
\* only when the response model call succeeded.
C19_OneAssistantMessage ==
    /\ [](pc = "__end__" =>
            /\ Len(state.messages) = Len(input.messages) + 1
            /\ SubSeq(state.messages, 1, Len(input.messages)) = input.messages
            /\ state.messages[Len(state.messages)].type = "ai"
            /\ state.messages[Len(state.messages)].content \in ResponseTexts)
    /\ [][ /\ pc # "generate_response" =>
                (state'.messages = state.messages /\ state'.answer = state.answer)
           /\ pc = "generate_response" =>
                /\ state'.messages = Append(state.messages, update'.messages[1])
                /\ Len(update'.messages) = 1
                /\ ("answer" \in DOMAIN update' \/ state'.answer # state.answer) =>
                      /\ state.messages # <<>>
                      /\ response'.kind = "reply"
                      /\ state'.answer = Some(response'.content) ]_vars

\* C19 witness: the response model call failed after planning and
\* retrieval; the failure text was appended and the answer left alone.
C19_Witness ==
    /\ pc = "__end__"
    /\ Len(trace) = 4
    /\ failed # <<>>
    /\ response.kind = "error"
    /\ state.messages[Len(state.messages)] = AIMessage("Response generation failed")
    /\ state.answer = input.answer

(***************************************************************************)
(* rag_agent/utils/state.py: ResearcherState (documents has the reducer    *)
(* add_documents, the other fields are replaced).                          *)
(***************************************************************************)
ResearcherState(question, docs) ==
    [research_question |-> question,
     queries           |-> <<>>,
     documents         |-> docs,
     step_number       |-> 0]

MergeResearcherState(s, upd) ==
    [f \in DOMAIN s |->
        IF f \notin DOMAIN upd THEN s[f]
        ELSE IF f = "documents" THEN add_documents(Some(s[f]), Some(upd[f]))
        ELSE upd[f]]

(***************************************************************************)
(* rag_agent/utils/nodes.py: generate_queries.  The reply of the model is  *)
(* a text, held as its stripped lines; a line is the list marker it        *)
(* starts with ("" when it starts with none of "1.", "2.", "3.", "-",      *)
(* "*"), the text left once the marker is removed and stripped, and        *)
(* whether that text is longer than 10 characters.                         *)
(***************************************************************************)
QueryLine(mark, text, long) == [mark |-> mark, text |-> text, long |-> long]

QueryTexts ==
    { <<>>,
      <<QueryLine("", "Here are some queries:", TRUE),
        QueryLine("1.", "What is LangGraph used for", TRUE),
        QueryLine("2.", "LangGraph", FALSE),
        QueryLine("-", "How do LangGraph agents work", TRUE)>>,
      <<QueryLine("1.", "first long query", TRUE), QueryLine("2.", "second long query", TRUE),
        QueryLine("3.", "third long query", TRUE), QueryLine("*", "fourth long query", TRUE)>> }

QueriesOutcomes ==
    ChatFailures \cup { [kind |-> "reply", content |-> t] : t \in QueryTexts }

\* the lines starting with a list marker, cleaned of it, longer than 10
RECURSIVE CleanQueries(_)
CleanQueries(lines) ==
    IF lines = <<>> THEN <<>>
    ELSE LET q == Head(lines)
         IN  (IF q.mark # "" /\ q.long THEN <<q.text>> ELSE <<>>)
                 \o CleanQueries(Tail(lines))

MaxQueries == 3

\* Variant: a failure of the model call leaves generate_queries.
generate_queries_uncaught(s, outcome) ==
    IF s.research_question = "" THEN [queries |-> <<>>]
    ELSE IF outcome.kind = "error" THEN Raised(outcome.at)
    ELSE [queries |-> Take(CleanQueries(outcome.content), MaxQueries)]

generate_queries(s, outcome) ==
    IF s.research_question = "" THEN [queries |-> <<>>]
    ELSE IF outcome.kind = "error" THEN [queries |-> <<>>]
    ELSE [queries |-> Take(CleanQueries(outcome.content), MaxQueries)]

(***************************************************************************)
(* rag_agent/utils/nodes.py: research_step.  failAt is the loader that     *)
(* raises (0: none), bad the set of queries whose search raises; a search  *)
(* that raises is caught in retrieve_documents and gives no document for   *)
(* that query.                                                             *)
(***************************************************************************)
ResearchK == 5

ResearchLoaders == <<"load_embeddings", "load_vector_store">>

\* all_docs after the loop over state.queries
RECURSIVE AllDocs(_, _, _, _)
AllDocs(queries, i, bad, store) ==
    IF i > Len(queries) THEN <<>>
    ELSE (IF i \in bad THEN <<>>
          ELSE asimilarity_search(store, queries[i], ResearchK))
         \o AllDocs(queries, i + 1, bad, store)

research_step(s, failAt, bad, store) ==
    IF s.queries = <<>> THEN [documents |-> <<>>]
    ELSE IF failAt # 0 THEN [documents |-> <<>>]
    ELSE [documents |-> AllDocs(s.queries, 1, bad, store)]

\* The stores of the process once research_step has made its calls
ResearchStores(s, failAt, existing) ==
    IF s.queries # <<>> /\ failAt = 0 THEN OpenStore(existing) ELSE existing

ResearchCalls(s, failAt) ==
    IF s.queries = <<>> THEN <<>>
    ELSE IF failAt # 0 THEN SubSeq(ResearchLoaders, 1, failAt)
    ELSE ResearchLoaders \o [i \in DOMAIN s.queries |-> "asimilarity_search"]

\* The calls of research_step that raised
ResearchFailed(s, failAt, bad) ==
    IF s.queries = <<>> THEN <<>>
    ELSE IF failAt # 0 THEN <<ResearchLoaders[failAt]>>
    ELSE [i \in 1..Cardinality(bad) |-> "asimilarity_search"]

(***************************************************************************)
(* rag_agent/graph.py: build_researcher_graph.                             *)
(*   START -> generate_queries -> research_step -> END.                    *)
(***************************************************************************)
ResearcherEdges ==
    { <<"__start__", "generate_queries">>, <<"generate_queries", "research_step">>,
      <<"research_step", "__end__">> }

ResearchQuestions == {"", "What is LangGraph?"}

ResearcherInit ==
    /\ state \in { ResearcherState(q, d) : q \in ResearchQuestions, d \in RetrievalInputDocs }
    /\ input = state
    /\ pc \in Successors(ResearcherEdges, "__start__")
    /\ trace = <<>>
    /\ calls = <<>>
    /\ update = NoUpdate
    /\ response = NoResponse
    /\ prompt = PyNone
    /\ failed = <<>>
    /\ stores = <<>>

GenerateQueries ==
    /\ pc = "generate_queries"
    /\ \/ /\ state.research_question = ""
          /\ update' = generate_queries(state, NoResponse)
          /\ UNCHANGED <<calls, response, prompt, failed>>
       \/ /\ state.research_question # ""
          /\ \E outcome \in QueriesOutcomes :
              /\ update' = generate_queries(state, outcome)
              /\ response' = outcome
              /\ calls' = calls \o ChatCalls(outcome)
              /\ prompt' = PromptAfter(outcome, [question |-> state.research_question])
              /\ failed' = FailedAfter(outcome)
    /\ state' = MergeResearcherState(state, update')
    /\ pc' \in NextAfter(update', Successors(ResearcherEdges, "generate_queries"))
    /\ trace' = Append(trace, "generate_queries")
    /\ UNCHANGED stores
    /\ UNCHANGED input

ResearchStep ==
    /\ pc = "research_step"
    /\ \E failAt \in 0..Len(ResearchLoaders), bad \in SUBSET DOMAIN state.queries :
        /\ stores' = ResearchStores(state, failAt, stores)
        /\ update' = research_step(state, failAt, bad,
                         IF stores' = <<>> THEN <<>> ELSE stores'[Len(stores')])
        /\ calls' = calls \o ResearchCalls(state, failAt)
        /\ failed' = failed \o ResearchFailed(state, failAt, bad)
    /\ state' = MergeResearcherState(state, update')
    /\ pc' \in NextAfter(update', Successors(ResearcherEdges, "research_step"))
    /\ trace' = Append(trace, "research_step")
    /\ UNCHANGED <<input, response, prompt>>

ResearcherNext == GenerateQueries \/ ResearchStep

SpecResearcher == ResearcherInit /\ [][ResearcherNext]_vars

(***************************************************************************)
(* The three RAG graphs together: an execution is one of the indexer, the  *)
(* retrieval and the researcher graph.  The executor keeps running the     *)
(* next node until the end marker.                                         *)
(***************************************************************************)
RagInit == IndexerInit \/ RetrievalInit \/ ResearcherInit

RagNext == IndexerNext \/ RetrievalNext \/ ResearcherNext

SpecRag == RagInit /\ [][RagNext]_vars /\ WF_vars(RagNext)

\* What a node returns when one of its collaborator calls raised
Degraded(node, upd) ==
    IF node = "index_docs"
    THEN "errors" \in DOMAIN upd /\ upd.errors # <<>>
    ELSE IF node = "query_analysis" THEN upd = [query_analysis |-> Some("general")]
    ELSE IF node = "research_planner"
    THEN "steps" \in DOMAIN upd /\ upd.steps = <<>> /\ "research_plan" \in DOMAIN upd
    ELSE IF node = "retrieve_docs" THEN upd = [documents |-> <<>>]
    ELSE IF node = "generate_response"
    THEN upd = [messages |-> <<AIMessage("Response generation failed")>>]
    ELSE IF node = "generate_queries" THEN upd = [queries |-> <<>>]
    ELSE IF node = "research_step"
    THEN "documents" \in DOMAIN upd
         /\ (upd.documents = <<>>
             \/ Len(upd.documents) < Len(state.queries) * Len(load_vector_store))
    ELSE FALSE

Executions == {1, 2}

\* The outcome of the calls of retrieve_docs or index_docs: which one raised
CallsOutcome(failAt) == [kind |-> "calls", failAt |-> failAt]

\* The collaborator outcomes a node may be given in a state
NodeOutcomes(node, s) ==
    IF node = "query_analysis"
    THEN (IF QueryAnalysisAsksModel(s) THEN QueryAnalysisOutcomes ELSE {NoResponse})
    ELSE IF node = "research_planner"
    THEN (IF s.messages = <<>> THEN {NoResponse} ELSE PlannerOutcomes)
    ELSE IF node = "retrieve_docs"
    THEN { CallsOutcome(n) : n \in 0..Len(RetrieveSteps) }
    ELSE IF node = "generate_response"
    THEN (IF s.messages = <<>> THEN {NoResponse} ELSE GenerateOutcomes)
    ELSE { CallsOutcome(n) : n \in 0..Len(IndexSteps) }

\* whether the node gets a store from load_vector_store before its await
NodeOpens(node, s, r) ==
    IF node = "retrieve_docs" THEN RetrieveOpens(s, r.failAt)
    ELSE IF node = "index_docs" THEN IndexOpens(s, <<>>, r.failAt)
    ELSE FALSE

\* The update a node returns, given its outcome and the store it holds
NodeUpdate(node, s, r, store) ==
    IF node = "query_analysis" THEN query_analysis(s, r)
    ELSE IF node = "research_planner" THEN research_planner(s, r)
    ELSE IF node = "retrieve_docs" THEN retrieve_docs_in(s, r.failAt, store)
    ELSE IF node = "generate_response" THEN generate_response(s, r)
    ELSE index_docs(s, <<>>, r.failAt).update

\* The merge of the graph the node belongs to
NodeMerge(node, s, upd) ==
    IF node = "index_docs" THEN MergeReplace(s, upd) ELSE MergeAgentState(s, upd)

\* The node after this one, given the merged state
NodeNext(node, merged, upd) ==
    IF "kind" \in DOMAIN upd THEN "aborted"
    ELSE IF node = "query_analysis" THEN route_query(merged).value
    ELSE IF node = "index_docs" THEN "__end__"
    ELSE CHOOSE n \in Successors(RetrievalEdges, node) : TRUE

\* The entry node of the graph a request is for
StartOf(request) ==
    IF "messages" \in DOMAIN request THEN "query_analysis" ELSE "index_docs"

\* The final state of an execution run alone, in a process of its own, from
\* state s at node, given the outcomes rs
RECURSIVE SoloRun(_, _, _)
SoloRun(s, node, rs) ==
    IF node \in {"__end__", "aborted"} \/ rs = <<>> THEN s
    ELSE LET upd    == NodeUpdate(node, s, Head(rs), load_vector_store)
             merged == NodeMerge(node, s, upd)
         IN  SoloRun(merged, NodeNext(node, merged, upd), Tail(rs))

ConcurrentRequests ==
    { AgentState(<<HumanMessage("What is LangGraph?")>>, PyNone, <<>>),
      CarriedOver(AgentState(<<>>, PyNone, <<Document("x", {<<"source", "a.md">>})>>)),
      [IndexState(<<Document("y", {<<"source", "a.md">>})>>) EXCEPT !.indexed_count = 0] }

ConcurrentInit ==
    /\ input \in ConcurrentRequests \X ConcurrentRequests
    /\ state = input
    /\ pc = <<StartOf(input[1]), StartOf(input[2])>>
    /\ trace = <<<<>>, <<>>>>
    /\ update = <<NoUpdate, NoUpdate>>
    /\ response = <<<<>>, <<>>>>
    /\ calls = <<>>
    /\ prompt = PyNone
    /\ failed = <<>>
    /\ stores = <<>>

\* Execution i enters its node, which runs up to its await
Suspend(i) ==
    /\ pc[i] \notin {"__end__", "aborted"}
    /\ update[i] = NoUpdate
    /\ \E r \in NodeOutcomes(pc[i], state[i]) :
        LET opens  == NodeOpens(pc[i], state[i], r)
            opened == IF opens THEN OpenStore(stores) ELSE stores
        IN  /\ stores' = opened
            /\ update' = [update EXCEPT ![i] =
                             [outcome |-> r,
                              view    |-> state[i],
                              handle  |-> IF opens THEN Len(opened) ELSE 0]]
    /\ UNCHANGED <<state, input, pc, trace, response, calls, prompt, failed>>

\* Execution i is resumed: its node returns and the update is merged
Resume(i) ==
    /\ update[i] # NoUpdate
    /\ LET u      == update[i]
           node   == pc[i]
           store  == IF u.handle = 0 THEN <<>> ELSE stores[u.handle]
           upd    == NodeUpdate(node, u.view, u.outcome, store)
           merged == NodeMerge(node, state[i], upd)
       IN  /\ state' = [state EXCEPT ![i] = merged]
           /\ pc' = [pc EXCEPT ![i] = NodeNext(node, merged, upd)]
           /\ stores' = IF node = "index_docs" /\ u.handle # 0 /\ u.outcome.failAt = 0
                        THEN [stores EXCEPT ![u.handle] =
                                 @ \o split_documents(u.view.documents)]
                        ELSE stores
           /\ response' = [response EXCEPT ![i] = Append(@, u.outcome)]
           /\ trace' = [trace EXCEPT ![i] = Append(@, node)]
    /\ update' = [update EXCEPT ![i] = NoUpdate]
    /\ UNCHANGED <<input, calls, prompt, failed>>

ConcurrentNext == \E i \in Executions : Suspend(i) \/ Resume(i)

SpecConcurrent == ConcurrentInit /\ [][ConcurrentNext]_vars

\* C15: two graph executions serving concurrent requests, interleaved at any
\* node or await, each end in the final state they reach when run alone
\* with the same collaborator responses, and a step of one execution leaves
\* the state, position and trace of the other unchanged.
C15_ExecutionsAreIsolated ==
    /\ [](\A i \in Executions :
            pc[i] = "__end__" =>
                state[i] = SoloRun(input[i], StartOf(input[i]), response[i]))
    /\ [][ \A i \in Executions :
             update'[i] = update[i] =>
                 (state'[i] = state[i] /\ pc'[i] = pc[i] /\ trace'[i] = trace[i]) ]_vars

\* C15 witness: an indexing request filled its store before a retrieval
\* request served next to it opened its own; the retrieval ended with the
\* document of a fresh store only.
C15_Witness ==
    /\ pc = <<"__end__", "__end__">>
    /\ trace[1] = <<"query_analysis", "retrieve_docs", "generate_response">>
    /\ trace[2] = <<"index_docs">>
    /\ Len(stores) = 2
    /\ Len(stores[1]) > 1
    /\ state[1].documents = load_vector_store
    /\ state[2].indexed_count = 2

\* The calls whose failure makes retrieve_docs or research_step give up
RetrievalFailures == {"load_embeddings", "load_vector_store", "asimilarity_search"}

\* C21: when retrieve_docs or research_step fails or finds nothing it
\* returns an explicitly empty documents update; merging that update through
\* add_documents leaves the documents accumulated in the state unchanged
\* (same documents, same order), never cleared; generate_response then
\* formats exactly those accumulated documents as the context of its prompt.
C21_EmptyUpdateKeepsDocuments ==
    /\ [][ (pc = "retrieve_docs" \/ pc = "research_step") =>
             ( /\ ( ( failed' # failed
                      /\ ( pc = "retrieve_docs"
                           \/ failed'[Len(failed')] \in Range(ResearchLoaders) ) )
                    => update' = [documents |-> <<>>] )
               /\ ( update'.documents = <<>>
                    => state'.documents = state.documents ) ) ]_vars
    /\ [][ ( /\ pc = "generate_response"
             /\ state.messages # <<>>
             /\ ~(response'.kind = "error" /\ response'.at = "load_chat_model") )
           => prompt' = Some([question |-> QuestionOf(state),
                              context  |-> format_docs_xml(state.documents)]) ]_vars
    /\ []( ( /\ pc = "__end__"
             /\ "query_analysis" \in DOMAIN state
             /\ \E i \in DOMAIN failed : failed[i] \in RetrievalFailures )
           => /\ state.documents = input.documents
              /\ (prompt # PyNone /\ "context" \in DOMAIN prompt[1])
                    => prompt[1].context = format_docs_xml(input.documents) )

\* C21 witness: a request carrying two documents had its search fail; the
\* response model was then given those two documents as context.
C21_Witness ==
    /\ pc = "__end__"
    /\ "query_analysis" \in DOMAIN state
    /\ Len(input.documents) = 2
    /\ failed = <<"asimilarity_search">>
    /\ update.messages = <<AIMessage("LangGraph is a library")>>
    /\ state.documents = input.documents
    /\ prompt[1].context = format_docs_xml(input.documents)

(***************************************************************************)
(* rag_agent/graph.py, rag_agent/server.py: one process serving requests   *)
(* one after the other through the module-level indexer, retrieval and     *)
(* researcher graphs.  When an execution has reached the end marker the    *)
(* next request starts from its own input; only the stores created so far  *)
(* outlive an execution.                                                   *)
(***************************************************************************)
MaxStores == 2

\* A request: the input of the graph, the state record made from it and the
\* entry node
SequentialRequests ==
    { [input |-> AgentState(<<HumanMessage("What is LangGraph?")>>, PyNone, <<>>),
       state |-> AgentState(<<HumanMessage("What is LangGraph?")>>, PyNone, <<>>),
       start |-> "query_analysis"],
      [input |-> [documents   |-> <<Document("y", {<<"source", "a.md">>})>>,
                  sample_docs |-> <<>>],
       state |-> IndexState(<<Document("y", {<<"source", "a.md">>})>>),
       start |-> "index_docs"],
      [input |-> ResearcherState("What is LangGraph?", <<>>),
       state |-> ResearcherState("What is LangGraph?", <<>>),
       start |-> "generate_queries"] }

SequentialInit ==
    /\ \E request \in SequentialRequests :
        /\ input = request.input
        /\ state = request.state
        /\ pc = request.start
    /\ trace = <<>>
    /\ calls = <<>>
    /\ update = NoUpdate
    /\ response = NoResponse
    /\ prompt = PyNone
    /\ failed = <<>>
    /\ stores = <<>>

\* The execution is over; the next request is taken up
NextExecution ==
    /\ pc = "__end__"
    /\ Len(stores) < MaxStores
    /\ \E request \in SequentialRequests :
        /\ input' = request.input
        /\ state' = request.state
        /\ pc' = request.start
    /\ trace' = <<>>
    /\ calls' = <<>>
    /\ update' = NoUpdate
    /\ response' = NoResponse
    /\ prompt' = PyNone
    /\ failed' = <<>>
    /\ UNCHANGED stores

SequentialNext == RagNext \/ NextExecution

SpecSequential == SequentialInit /\ [][SequentialNext]_vars

\* The documents index_docs was asked to index
IndexedDocuments ==
    IF state.documents = <<>> THEN input.sample_docs ELSE state.documents

\* C22: no state carries over between graph executions.  Every index_docs,
\* retrieve_docs and research_step call that opens a store builds a fresh
\* one and leaves the earlier ones as they were; the documents retrieve_docs
\* and research_step return are those they return in a process where
\* nothing ran before, whatever indexer executions came earlier; and the
\* next execution starts from its own input alone.
C22_NoCarryOver ==
    /\ [][ (pc = "retrieve_docs") =>
             update' \in { retrieve_docs(state, n) : n \in 0..Len(RetrieveSteps) } ]_vars
    /\ [][ (pc = "research_step") =>
             update' \in { research_step(state, n, bad, load_vector_store) :
                             n \in 0..Len(ResearchLoaders),
                             bad \in SUBSET DOMAIN state.queries } ]_vars
    /\ [][ (stores' # stores) =>
             ( /\ Len(stores') = Len(stores) + 1
               /\ SubSeq(stores', 1, Len(stores)) = stores
               /\ IF pc = "index_docs"
                  THEN stores'[Len(stores')] \in
                          { load_vector_store,
                            load_vector_store \o split_documents(IndexedDocuments) }
                  ELSE stores'[Len(stores')] = load_vector_store ) ]_vars
    /\ [][ (pc = "__end__") =>
             ( /\ trace' = <<>>
               /\ \E request \in SequentialRequests :
                     state' = request.state /\ input' = request.input ) ]_vars

\* C22 witness: an indexer execution stored its chunks, then a retrieval
\* execution in the same process ended with the one document of a fresh
\* store.
C22_Witness ==
    /\ pc = "__end__"
    /\ "query_analysis" \in DOMAIN state
    /\ Len(stores) = 2
    /\ Len(stores[1]) = 3
    /\ stores[2] = load_vector_store
    /\ failed = <<>>
    /\ state.documents = load_vector_store
    /\ state.answer = Some("LangGraph is a library")

(***************************************************************************)
(* react_agent/utils/state.py: Context.  A value is its type and its text, *)
(* so that the int 10 and the string "10" differ as they do in Python.     *)
(* The arguments map each field to the value passed (PyNone: not passed),  *)
(* the environment maps each field to the value of the variable named by   *)
(* the upper-cased field name (PyNone: not set; always a string).          *)
(***************************************************************************)
PyStr(text) == [type |-> "str", text |-> text]

PyInt(text) == [type |-> "int", text |-> text]

ContextFields == {"system_prompt", "model", "max_search_results", "max_iterations"}

ContextDefaults ==
    [system_prompt      |-> PyStr("You are a helpful AI assistant.\n\nSystem time: {system_time}"),
     model              |-> PyStr("openai/gpt-4o"),
     max_search_results |-> PyInt("10"),
     max_iterations     |-> PyInt("10")]

\* Values a caller passes that differ from the defaults
ContextOthers ==
    [system_prompt      |-> PyStr("Be brief."),
     model              |-> PyStr("anthropic/claude-3-5-sonnet-20240620"),
     max_search_results |-> PyInt("5"),
     max_iterations     |-> PyInt("3")]

\* The generated __init__ of the dataclass: the argument, or the default
dataclass_init(args) ==
    [f \in ContextFields |-> IF args[f] = PyNone THEN ContextDefaults[f] ELSE args[f][1]]

\* os.environ.get(f.name.upper(), f.default)
environ_get(env, f) == IF env[f] = PyNone THEN ContextDefaults[f] ELSE env[f][1]

\* __post_init__: a field whose value equals its default is read from the
\* environment
post_init(self, env) ==
    [f \in ContextFields |->
        IF self[f] = ContextDefaults[f] THEN environ_get(env, f) ELSE self[f]]

\* Context(**args) under the environment env
Context(args, env) == post_init(dataclass_init(args), env)

\* The arguments of a construction: each field is not passed, passed with
\* its default value, or passed with another value
ContextArgs ==
    { a \in [ContextFields -> {PyNone}
                \cup { Some(ContextDefaults[f]) : f \in ContextFields }
                \cup { Some(ContextOthers[f]) : f \in ContextFields }] :
        \A f \in ContextFields :
            a[f] \in {PyNone, Some(ContextDefaults[f]), Some(ContextOthers[f])} }

\* The environment: each variable is unset or set
ContextEnvs == [ContextFields -> {PyNone, Some(PyStr("from-env"))}]

ContextInit ==
    /\ \E args \in ContextArgs, env \in ContextEnvs :
            input = [args |-> args, env |-> env]
    /\ state = PyNone
    /\ pc = "Context"
    /\ trace = <<>>
    /\ calls = <<>>
    /\ update = NoUpdate
    /\ response = NoResponse
    /\ prompt = PyNone
    /\ failed = <<>>
    /\ stores = <<>>

Construct ==
    /\ pc = "Context"
    /\ state' = Context(input.args, input.env)
    /\ pc' = "constructed"
    /\ trace' = Append(trace, "__post_init__")
    /\ UNCHANGED stores
    /\ UNCHANGED <<input, calls, update, response, prompt, failed>>

ContextNext == Construct

SpecContext == ContextInit /\ [][ContextNext]_vars

\* C20: constructing a Context never overrides an attribute that was passed
\* as an argument: a field the caller passed keeps the passed value whatever
\* the environment holds; a field not passed takes the value of its
\* environment variable when that is set and the field default otherwise.
C20_PassedArgumentsWin ==
    pc = "constructed" =>
        \A f \in ContextFields :
            state[f] = IF input.args[f] # PyNone THEN input.args[f][1]
                       ELSE environ_get(input.env, f)

====
